---------------------------- MODULE Spec2Model ----------------------------
(***************************************************************************)
(* A model of aerodata: the designator parser and the feature derivation   *)
(* of fetch.py, the cache manager get_features of fetch.py under the       *)
(* gevent scheduling that __init__.py installs, and the query engine of    *)
(* query.py.                                                               *)
(*                                                                         *)
(* Strings are sequences of one-character strings (<<"0","9","L">> is      *)
(* "09L"), so that indexing, slicing, int(), str() and split() are         *)
(* computed as Python computes them.  Headings are integers in tenths of   *)
(* a degree (22.5 degrees is 225); the coordinates of a query's features   *)
(* are whole degrees, those of a raw runway thousandths of a degree.       *)
(***************************************************************************)
EXTENDS Integers, Sequences, FiniteSets, TLC

None == "None"

(***************************************************************************)
(* Python string helpers.                                                  *)
(***************************************************************************)
Digits == {"0", "1", "2", "3", "4", "5", "6", "7", "8", "9"}

DigitVal(c) ==
    CASE c = "0" -> 0 [] c = "1" -> 1 [] c = "2" -> 2 [] c = "3" -> 3
      [] c = "4" -> 4 [] c = "5" -> 5 [] c = "6" -> 6 [] c = "7" -> 7
      [] c = "8" -> 8 [] c = "9" -> 9

DigitChar(n) ==
    CASE n = 0 -> "0" [] n = 1 -> "1" [] n = 2 -> "2" [] n = 3 -> "3"
      [] n = 4 -> "4" [] n = 5 -> "5" [] n = 6 -> "6" [] n = 7 -> "7"
      [] n = 8 -> "8" [] n = 9 -> "9"

\* s[-1]
Last(s) == s[Len(s)]

\* s[0:-1]
DropLast(s) == SubSeq(s, 1, Len(s) - 1)

IsDigits(s) == Len(s) > 0 /\ \A i \in 1..Len(s) : s[i] \in Digits

\* int(s) for a string of decimal digits (any other string raises ValueError,
\* which the callers test with IsDigits)
RECURSIVE IntOf(_)
IntOf(s) == IF Len(s) = 0 THEN 0 ELSE 10 * IntOf(DropLast(s)) + DigitVal(Last(s))

\* str(n) for n >= 0
RECURSIVE StrOf(_)
StrOf(n) == IF n < 10 THEN <<DigitChar(n)>> ELSE StrOf(n \div 10) \o <<DigitChar(n % 10)>>

\* f"{n:0{w}d}" for n >= 0: zero-padded to at least w characters
RECURSIVE ZeroPad(_, _)
ZeroPad(s, w) == IF Len(s) >= w THEN s ELSE ZeroPad(<<"0">> \o s, w)

Ok(v) == [ok |-> TRUE, v |-> v, err |-> None]
Err(e) == [ok |-> FALSE, v |-> None, err |-> e]

(***************************************************************************)
(* Designator parser.                                                      *)
(***************************************************************************)
\* RUNWAY_HEADINGS, in tenths of a degree
RUNWAY_HEADINGS ==
    (<<"N">> :> 0) @@ (<<"N","N","E">> :> 225) @@ (<<"N","E">> :> 450)
    @@ (<<"E","N","E">> :> 675) @@ (<<"E">> :> 900) @@ (<<"E","S","E">> :> 1125)
    @@ (<<"S","E">> :> 1350) @@ (<<"S","S","E">> :> 1575) @@ (<<"S">> :> 1800)
    @@ (<<"S","S","W">> :> 2025) @@ (<<"S","W">> :> 2250) @@ (<<"W","S","W">> :> 2475)
    @@ (<<"W">> :> 2700) @@ (<<"W","N","W">> :> 2925) @@ (<<"N","W">> :> 3150)
    @@ (<<"N","N","W">> :> 3375) @@ (<<"A","L","L">> :> 0) @@ (<<"W","A","Y">> :> 1800)

RECIPROCAL_SUFFIXES ==
    (<<"L">> :> <<"R">>) @@ (<<"R">> :> <<"L">>) @@ (<<"W">> :> <<"E">>)
    @@ (<<"E">> :> <<"W">>) @@ (<<"N">> :> <<"S">>) @@ (<<"S">> :> <<"N">>)
    @@ (<<"N","E">> :> <<"S","W">>) @@ (<<"S","E">> :> <<"N","W">>)
    @@ (<<"S","W">> :> <<"N","E">>) @@ (<<"N","W">> :> <<"S","E">>)
    @@ (<<"N","N","E">> :> <<"S","S","W">>) @@ (<<"E","N","E">> :> <<"W","S","W">>)
    @@ (<<"E","S","E">> :> <<"W","N","W">>) @@ (<<"S","S","E">> :> <<"N","N","W">>)
    @@ (<<"S","S","W">> :> <<"N","N","E">>) @@ (<<"W","S","W">> :> <<"E","N","E">>)
    @@ (<<"W","N","W">> :> <<"E","S","E">>) @@ (<<"N","N","W">> :> <<"S","S","E">>)

\* _heading_of: the heading in tenths of a degree, or the exception raised.
\* float() of a string that is not all digits raises ValueError (the
\* designators of the model hold no sign, point, exponent, "inf" or "nan").
HeadingOf(runway_name) ==
    IF runway_name \in DOMAIN RUNWAY_HEADINGS THEN Ok(RUNWAY_HEADINGS[runway_name])
    ELSE IF Len(runway_name) = 0 THEN Err("IndexError")
    ELSE LET name == IF Last(runway_name) \notin Digits
                     THEN DropLast(runway_name) ELSE runway_name
         IN  IF name \in DOMAIN RUNWAY_HEADINGS THEN Ok(RUNWAY_HEADINGS[name])
             ELSE IF Len(name) = 2
                  THEN IF IsDigits(name) THEN Ok(IntOf(name) * 10 * 10) ELSE Err("ValueError")
             ELSE IF Len(name) = 3
                  THEN IF IsDigits(name) THEN Ok(IntOf(name) * 10) ELSE Err("ValueError")
             ELSE Err("ValueError")

\* ReciprocalNumeric with the reciprocal heading not reduced modulo 360
ReciprocalNumericUnreduced(name, suffix) ==
    IF Len(name) \notin {2, 3} \/ ~IsDigits(name) THEN Err("ValueError")
    ELSE LET heading0 == IF Len(name) = 2 THEN IntOf(name) * 10 ELSE IntOf(name)
             heading == heading0 + 180
         IN  IF Len(name) = 2
             THEN Ok(ZeroPad(StrOf(heading \div 10), 2) \o suffix)
             ELSE Ok(ZeroPad(StrOf(heading), 3) \o suffix)

\* the numeric tail of _reciprocal_runway (lines 93-105), for the name left
\* after the suffix was stripped; round(heading / 10) of a 2-digit name is
\* exact, its heading being a multiple of 10
ReciprocalNumeric(name, suffix) ==
    IF Len(name) \notin {2, 3} \/ ~IsDigits(name) THEN Err("ValueError")
    ELSE LET heading0 == IF Len(name) = 2 THEN IntOf(name) * 10 ELSE IntOf(name)
             heading == (heading0 + 180) % 360
         IN  IF Len(name) = 2
             THEN Ok(ZeroPad(StrOf(heading \div 10), 2) \o suffix)
             ELSE Ok(ZeroPad(StrOf(heading), 3) \o suffix)

\* _reciprocal_runway: the reciprocal designator, or the exception raised
ReciprocalRunway(runway_name) ==
    IF runway_name \in DOMAIN RECIPROCAL_SUFFIXES THEN Ok(RECIPROCAL_SUFFIXES[runway_name])
    ELSE IF Len(runway_name) = 0 THEN Err("IndexError")
    ELSE IF Last(runway_name) \notin Digits
         THEN IF <<Last(runway_name)>> \notin DOMAIN RECIPROCAL_SUFFIXES
              THEN Err("ValueError")
              ELSE LET suffix == RECIPROCAL_SUFFIXES[<<Last(runway_name)>>]
                       name == DropLast(runway_name)
                   IN  IF name \in DOMAIN RECIPROCAL_SUFFIXES
                       THEN Ok(RECIPROCAL_SUFFIXES[name] \o suffix)
                       ELSE ReciprocalNumeric(name, suffix)
         ELSE ReciprocalNumeric(runway_name, <<>>)


(***************************************************************************)
(* Geometry utilities.                                                     *)
(***************************************************************************)
Abs(n) == IF n < 0 THEN -n ELSE n

Min2(a, b) == IF a <= b THEN a ELSE b

\* _angular_distance, on tenths of a degree
AngularDistance(a1, a2) ==
    Min2(Abs(a2 - a1), Min2(Abs(a2 + 3600 - a1), Abs(a2 - 3600 - a1)))

(***************************************************************************)
(* Feature derivation (get_features, lines 190-378).                       *)
(*                                                                         *)
(* A raw airport is [GLOBAL_ID, IDENT, NAME, geometry], its geometry the   *)
(* point <<lng, lat>>; a raw runway is                                     *)
(* [AIRPORT_ID, GLOBAL_ID, DESIGNATOR, WIDTH, LENGTH, coords, seg_length,  *)
(* heading12]: coords is the ring of <<lng, lat>> in thousandths of a      *)
(* degree, and seg_length (feet) and heading12 (tenths of a degree) are    *)
(* the values lines 245-250 and 268-270 measure on it with _flatten, sqrt, *)
(* atan2 and geomag.  A coordinate of a derived geometry is kept           *)
(* symbolically (Pt): the vertices it averages, or the airport point, the  *)
(* heading and the length it is estimated from.                            *)
(***************************************************************************)
\* str.split(sep) for a one-character separator
RECURSIVE SplitAcc(_, _, _)
SplitAcc(s, sep, cur) ==
    IF Len(s) = 0 THEN <<cur>>
    ELSE IF Head(s) = sep THEN <<cur>> \o SplitAcc(Tail(s), sep, <<>>)
    ELSE SplitAcc(Tail(s), sep, Append(cur, Head(s)))

Split(s, sep) == SplitAcc(s, sep, <<>>)

\* str.replace(old, new) for one-character strings
Replace(s, old, new) == [i \in 1..Len(s) |-> IF s[i] = old THEN new ELSE s[i]]

Contains(s, c) == \E i \in 1..Len(s) : s[i] = c

\* lines 215-219
BadCoords(coords) ==
    LET lngs == {coords[i][1] : i \in 1..Len(coords)}
        lats == {coords[i][2] : i \in 1..Len(coords)}
    IN  /\ \A v \in lngs : v > -500 /\ v < 500
        /\ \A v \in lats : v > -1 /\ v < 1

\* lines 226-227
NormalizeName(name) ==
    IF Contains(name, "-") /\ name[1] \notin {"H", "B"}
    THEN Replace(name, "-", "/") ELSE name

\* line 229
IsRunway(name, length) ==
    \/ (name[1] \notin {"H", "B"} /\ (Contains(name, "/") \/ length > 800))
    \/ name = <<"W">>

\* lines 232-236: the names of a runway, with the reciprocal appended to a
\* single name; or the exception of _reciprocal_runway
WithReciprocal(names, r) == IF r.ok THEN Ok(Append(names, r.v)) ELSE r

NamesOf(names) ==
    IF Len(names) = 1 THEN WithReciprocal(names, ReciprocalRunway(names[1]))
    ELSE Ok(names)

RunwayNames(name) == NamesOf(Split(name, "/"))

\* line 238: all() stops at the first name that does not end in X, and n[-1]
\* of an empty name reached before that raises IndexError
DecommissionedRaises(names) ==
    \E i \in 1..Len(names) :
        /\ Len(names[i]) = 0
        /\ \A j \in 1..(i - 1) : Len(names[j]) > 0 /\ Last(names[j]) = "X"

AllDecommissioned(names) ==
    \A i \in 1..Len(names) : Len(names[i]) > 0 /\ Last(names[i]) = "X"

\* a coordinate of a derived geometry
Pt(kind, pts, h, len) == [kind |-> kind, pts |-> pts, h |-> h, len |-> len]

Feature(type, geo, ap_id, id, names, width, approx) ==
    [aerodrome_element_type |-> type, geometry |-> geo, aerodrome_identifier |-> ap_id,
     id |-> id, runways |-> names, runway_width |-> width, approximate |-> approx]

Emitted(f) == [kind |-> "feature", feature |-> f, err |-> None]
Skipped(why) == [kind |-> "skip", feature |-> None, err |-> why]
Aborted(e) == [kind |-> "abort", feature |-> None, err |-> e]

\* lines 271-295: the headings of the names against the measured heading
\* h12 of end e1 to end e2
Reconciled(runway, ap_id, names, e1, e2, h12, h21, hs) ==
    IF \E i \in 1..Len(names) : ~hs[i].ok
    THEN Aborted((hs[CHOOSE i \in 1..Len(names) :
                      ~hs[i].ok /\ \A j \in 1..(i - 1) : hs[j].ok]).err)
    ELSE IF Len(names) # 2 THEN Aborted("NotImplementedError")
    ELSE LET swap == AngularDistance(hs[1].v, h12) + AngularDistance(hs[2].v, h21)
                       > AngularDistance(hs[1].v, h21) + AngularDistance(hs[2].v, h12)
         IN  Emitted(Feature("Runway",
                             [type |-> "LineString",
                              coordinates |-> IF swap THEN <<e2, e1>> ELSE <<e1, e2>>],
                             ap_id, runway.GLOBAL_ID, <<names[1], names[2]>>,
                             runway.WIDTH, FALSE))

\* lines 259-266: a measured side of 0 ft raises ZeroDivisionError
Measured(runway, ap_id, names, e1, e2, width1, length1, width2, length2) ==
    IF width1 = 0 \/ width2 = 0 \/ length1 = 0 \/ length2 = 0
    THEN Aborted("ZeroDivisionError")
    ELSE Reconciled(runway, ap_id, names, e1, e2, runway.heading12,
                    (runway.heading12 + 1800) % 3600,
                    [i \in 1..Len(names) |-> HeadingOf(names[i])])

\* lines 243-258: endpoints from the ring
MeasuredRunway(runway, ap_id, names) ==
    LET coords == runway.coords
        seg == runway.seg_length
    IN  IF seg[1] + seg[3] < seg[2] + seg[4]
        THEN Measured(runway, ap_id, names,
                      Pt("mid", <<coords[1], coords[2]>>, 0, 0),
                      Pt("mid", <<coords[3], coords[4]>>, 0, 0),
                      seg[1], seg[2], seg[3], seg[4])
        ELSE Measured(runway, ap_id, names,
                      Pt("mid", <<coords[2], coords[3]>>, 0, 0),
                      Pt("mid", <<coords[1], coords[4]>>, 0, 0),
                      seg[2], seg[1], seg[4], seg[3])

\* lines 305-317: a line of the nominal length through the airport, along
\* the heading h
Estimated(runway, airport, ap_id, names, h) ==
    IF ~h.ok THEN Aborted(h.err)
    ELSE Emitted(Feature("Runway",
                     [type |-> "LineString",
                      coordinates |->
                          <<Pt("back", <<airport.geometry>>, h.v, runway.LENGTH),
                            Pt("ahead", <<airport.geometry>>, h.v, runway.LENGTH)>>],
                     ap_id, runway.GLOBAL_ID, <<names[1], names[2]>>, runway.WIDTH, TRUE))

\* lines 296-304: endpoints estimated from the airport and the first heading
EstimatedRunway(runway, airport, ap_id, name, names) ==
    IF runway.LENGTH = 0 THEN Aborted("ValueError")
    ELSE IF runway.WIDTH = 0 THEN Aborted("ValueError")
    ELSE Estimated(runway, airport, ap_id, names, HeadingOf(Split(name, "/")[1]))

\* lines 344-372
Helipad(runway, airport, ap_id) ==
    LET geo == IF ~BadCoords(runway.coords)
               THEN [type |-> "Point",
                     coordinates |-> <<Pt("centroid", DropLast(runway.coords), 0, 0)>>]
               ELSE [type |-> "Point", coordinates |-> <<Pt("point", <<airport.geometry>>, 0, 0)>>]
    IN  Emitted(Feature("Helipad", geo, ap_id, runway.GLOBAL_ID, <<>>, 0,
                        BadCoords(runway.coords)))

\* lines 232-340: a record classified as a runway, ns its names
RunwayPath(runway, airport, ap_id, name, ns) ==
    IF ~ns.ok THEN Aborted(ns.err)
    ELSE IF DecommissionedRaises(ns.v) THEN Aborted("IndexError")
    ELSE IF AllDecommissioned(ns.v) THEN Skipped("decommissioned")
    ELSE IF ~BadCoords(runway.coords) THEN MeasuredRunway(runway, ap_id, ns.v)
    ELSE EstimatedRunway(runway, airport, ap_id, name, ns.v)

\* Classified with the balloon port tested before the helipad
ClassifiedBalloonFirst(runway, airport, ap_id, name) ==
    IF IsRunway(name, runway.LENGTH)
    THEN RunwayPath(runway, airport, ap_id, name, RunwayNames(name))
    ELSE IF name[1] = "B" THEN Skipped("balloon")
    ELSE IF name[1] = "H" \/ runway.LENGTH = 0 THEN Helipad(runway, airport, ap_id)
    ELSE Aborted("NotImplementedError")

\* lines 229-378: the record under its normalized name
Classified(runway, airport, ap_id, name) ==
    IF IsRunway(name, runway.LENGTH)
    THEN RunwayPath(runway, airport, ap_id, name, RunwayNames(name))
    ELSE IF name[1] = "H" \/ runway.LENGTH = 0 THEN Helipad(runway, airport, ap_id)
    ELSE IF name[1] = "B" THEN Skipped("balloon")
    ELSE Aborted("NotImplementedError")

\* one iteration of the loop of line 212, for a runway joined to its airport
\* (whose derived identifier is ap_id); name[0] of an empty designator raises
ProcessRunway(runway, airport, ap_id) ==
    IF Len(runway.DESIGNATOR) = 0 THEN Aborted("IndexError")
    ELSE Classified(runway, airport, ap_id, NormalizeName(runway.DESIGNATOR))

\* lines 194-198
AirportId(airport) ==
    IF Len(airport.IDENT) = 0 THEN airport.GLOBAL_ID ELSE <<"K">> \o airport.IDENT

\* lines 199-208
AerodromeFeature(airport) ==
    Feature("Aerodrome",
            [type |-> "Point", coordinates |-> <<Pt("point", <<airport.geometry>>, 0, 0)>>],
            AirportId(airport), airport.GLOBAL_ID, <<>>, 0, FALSE)

\* line 211: the last airport with the GLOBAL_ID wins
AirportsById(airports, gid) ==
    airports[CHOOSE i \in 1..Len(airports) :
                 /\ airports[i].GLOBAL_ID = gid
                 /\ \A j \in (i + 1)..Len(airports) : airports[j].GLOBAL_ID # gid]

DeriveOk(features) == [ok |-> TRUE, features |-> features, err |-> None]
DeriveAbort(e) == [ok |-> FALSE, features |-> <<>>, err |-> e]

\* lines 213 and 323: the airport of a runway, with its derived identifier
JoinedRunway(runway, airport) == ProcessRunway(runway, airport, AirportId(airport))

\* the features after a record's outcome r: appended to, or left alone
Collected(features, r) == IF r.kind = "skip" THEN features ELSE Append(features, r.feature)

\* the loop of lines 212-378 from record i on, with the features so far
RECURSIVE RunwayLoop(_, _, _, _)
RECURSIVE LoopStep(_, _, _, _, _)
LoopStep(airports, runways, i, features, r) ==
    IF r.kind = "abort" THEN DeriveAbort(r.err)
    ELSE RunwayLoop(airports, runways, i + 1, Collected(features, r))

RunwayLoop(airports, runways, i, features) ==
    IF i > Len(runways) THEN DeriveOk(features)
    ELSE IF \A k \in 1..Len(airports) : airports[k].GLOBAL_ID # runways[i].AIRPORT_ID
    THEN DeriveAbort("KeyError")
    ELSE LoopStep(airports, runways, i, features,
                  JoinedRunway(runways[i], AirportsById(airports, runways[i].AIRPORT_ID)))

\* lines 190-378: the features of the raw airports and runways, or the
\* exception that aborts the derivation
Derive(airports, runways) ==
    RunwayLoop(airports, runways, 1,
               [k \in 1..Len(airports) |-> AerodromeFeature(airports[k])])

(***************************************************************************)
(* The query engine (query.py).                                            *)
(*                                                                         *)
(* A request parameter is Given(s), s its string, or Missing.  A feature   *)
(* is [aerodrome_element_type, geometry, aerodrome_identifier], with the   *)
(* coordinates of a Point <<lng, lat>> and those of a LineString a         *)
(* sequence of <<lng, lat>>, in whole degrees.                             *)
(***************************************************************************)
Missing == [has |-> FALSE, s |-> <<>>]
Given(s) == [has |-> TRUE, s |-> s]

\* int(s): an optional sign and decimal digits
ParseInt(s) ==
    IF Len(s) > 0 /\ s[1] \in {"-", "+"}
    THEN IF IsDigits(Tail(s))
         THEN Ok(IF s[1] = "-" THEN 0 - IntOf(Tail(s)) ELSE IntOf(Tail(s)))
         ELSE Err("ValueError")
    ELSE IF IsDigits(s) THEN Ok(IntOf(s)) ELSE Err("ValueError")

\* str(n)
StrOfInt(n) == IF n < 0 THEN <<"-">> \o StrOf(0 - n) ELSE StrOf(n)

\* str.strip(), of spaces
RECURSIVE LStrip(_)
LStrip(s) == IF Len(s) > 0 /\ Head(s) = " " THEN LStrip(Tail(s)) ELSE s

RECURSIVE RStrip(_)
RStrip(s) == IF Len(s) > 0 /\ Last(s) = " " THEN RStrip(DropLast(s)) ELSE s

Strip(s) == RStrip(LStrip(s))

LowerChar(c) ==
    CASE c = "T" -> "t" [] c = "R" -> "r" [] c = "U" -> "u" [] c = "E" -> "e"
      [] c = "F" -> "f" [] c = "A" -> "a" [] c = "L" -> "l" [] c = "S" -> "s"
      [] OTHER -> c

\* str.lower(), of the letters of "true" and "false"
Lower(s) == [k \in 1..Len(s) |-> LowerChar(s[k])]

\* lines 28-30: params.get(name, "false").lower() == "true"
Flag(param) == param.has /\ Lower(param.s) = <<"t", "r", "u", "e">>

\* lines 61-69: the stripped items of a comma-separated parameter
ItemSet(param) ==
    IF param.has /\ Len(Strip(param.s)) > 0
    THEN {Strip(Split(param.s, ",")[k]) : k \in 1..Len(Split(param.s, ","))}
    ELSE {}

Min(a, b) == IF a <= b THEN a ELSE b
Max(a, b) == IF a >= b THEN a ELSE b

Window(latA, latB, lngA, lngB, wrap) ==
    [latA |-> latA, latB |-> latB, lngA |-> lngA, lngB |-> lngB, lng_wrap_180 |-> wrap]

\* lines 41-53, on the longitudes after % 360
WrappedWindow(latA, latB, lngA, lngB) ==
    IF lngA = lngB THEN Err("ValueError")
    ELSE IF lngB - lngA > 180 THEN Ok(Window(latA, latB, lngB, lngA - 360, TRUE))
    ELSE Ok(Window(latA, latB, lngA, lngB, FALSE))

\* lines 37-53, on the four coordinates
BoxWindow(c) ==
    IF Min(c[1], c[3]) < -90 \/ Max(c[1], c[3]) > 90 \/ Min(c[1], c[3]) = Max(c[1], c[3])
    THEN Err("ValueError")
    ELSE WrappedWindow(Min(c[1], c[3]), Max(c[1], c[3]),
                       Min(c[2], c[4]) % 360, Max(c[2], c[4]) % 360)

\* lines 34-36: float() of each part (whole numbers in the model)
BoxCoords(parts) ==
    IF \E k \in 1..Len(parts) : ~ParseInt(parts[k]).ok THEN Err("ValueError")
    ELSE IF Len(parts) # 4 THEN Err("ValueError")
    ELSE BoxWindow([k \in 1..Len(parts) |-> ParseInt(parts[k]).v])

\* lines 32-59
BoundingBox(param) ==
    IF param.has /\ Len(param.s) > 0 THEN BoxCoords(Split(param.s, ","))
    ELSE Ok(Window(-90, 90, 0, 360, FALSE))

\* lines 23-31 and 61-71, given the page size and the window
QueryOf(params, size, window) ==
    IF ~size.ok THEN Err("ValueError")
    ELSE IF size.v < 0 THEN Err("ValueError")
    ELSE IF ~window.ok THEN Err("ValueError")
    ELSE Ok([page_token |-> params.page_token,
             page_size |-> size.v,
             exclude_runways |-> Flag(params.exclude_runways),
             exclude_helipads |-> Flag(params.exclude_helipads),
             exclude_aerodromes |-> Flag(params.exclude_aerodromes),
             latA |-> window.v.latA, latB |-> window.v.latB,
             lngA |-> window.v.lngA, lngB |-> window.v.lngB,
             lng_wrap_180 |-> window.v.lng_wrap_180,
             aerodrome_identifiers |-> ItemSet(params.aerodrome_identifiers),
             countries |-> ItemSet(params.countries)])

\* AerodromeQueryParams.from_dict
FromDict(params) ==
    QueryOf(params,
            IF params.page_size.has THEN ParseInt(params.page_size.s) ELSE Ok(0),
            BoundingBox(params.bounding_box))

\* lines 96-101 (a geometry of another type raises NotImplementedError)
Coords(feature) ==
    IF feature.geometry.type = "Point" THEN <<feature.geometry.coordinates>>
    ELSE feature.geometry.coordinates

\* lines 104-107
CoordInside(coord, query) ==
    /\ query.latA <= coord[2] /\ coord[2] <= query.latB
    /\ query.lngA <= (coord[1] % 360) - (IF query.lng_wrap_180 THEN 180 ELSE 0)
    /\ (coord[1] % 360) - (IF query.lng_wrap_180 THEN 180 ELSE 0) <= query.lngB

\* lines 89-94
Excluded(feature, query) ==
    \/ query.exclude_aerodromes /\ feature.aerodrome_element_type = "Aerodrome"
    \/ query.exclude_helipads /\ feature.aerodrome_element_type = "Helipad"
    \/ query.exclude_runways /\ feature.aerodrome_element_type = "Runway"

\* Kept with a feature kept when any of its coordinates is in the window
KeptAnyCoord(feature, query) ==
    /\ ~Excluded(feature, query)
    /\ \E k \in 1..Len(Coords(feature)) : CoordInside(Coords(feature)[k], query)
    /\ (query.aerodrome_identifiers # {}
            => feature.aerodrome_identifier \in query.aerodrome_identifiers)
    /\ ~(query.countries # {} /\ <<"U", "S", "A">> \notin query.countries)

\* lines 89-120: whether the loop appends the feature
Kept(feature, query) ==
    /\ ~Excluded(feature, query)
    /\ \A k \in 1..Len(Coords(feature)) : CoordInside(Coords(feature)[k], query)
    /\ (query.aerodrome_identifiers # {}
            => feature.aerodrome_identifier \in query.aerodrome_identifiers)
    /\ ~(query.countries # {} /\ <<"U", "S", "A">> \notin query.countries)

\* lines 86-120: the loop from feature i on
RECURSIVE FilterLoop(_, _, _, _)
FilterLoop(all_features, query, i, features) ==
    IF i > Len(all_features) THEN Ok(features)
    ELSE IF ~Excluded(all_features[i], query)
            /\ all_features[i].geometry.type \notin {"Point", "LineString"}
    THEN Err("NotImplementedError")
    ELSE FilterLoop(all_features, query, i + 1,
                    IF Kept(all_features[i], query) THEN Append(features, all_features[i])
                    ELSE features)

\* features[skip:]
SliceFrom(features, skip) ==
    IF skip >= 0 THEN SubSeq(features, skip + 1, Len(features))
    ELSE SubSeq(features, Max(Len(features) + skip, 0) + 1, Len(features))

Page(features, token) == [kind |-> "page", features |-> features, next_page_token |-> token]
Failure(e) == [kind |-> e, features |-> <<>>, next_page_token |-> Missing]

\* PageOf with the page token of the next page counted from the start of
\* this page
PageOfRelative(features, skip, page_size) ==
    IF page_size # 0 /\ Len(features) > page_size
    THEN Page(SubSeq(features, 1, page_size), Given(StrOfInt(page_size)))
    ELSE Page(features, Missing)

\* PageOf with a next page token also when the features left fill the page
\* exactly
PageOfInclusive(features, skip, page_size) ==
    IF page_size # 0 /\ Len(features) >= page_size
    THEN Page(SubSeq(features, 1, page_size),
              IF skip + page_size # 0 THEN Given(StrOfInt(skip + page_size)) ELSE Missing)
    ELSE Page(features, Missing)

\* lines 130-145, on the features from skip on
PageOf(features, skip, page_size) ==
    IF page_size # 0 /\ Len(features) > page_size
    THEN Page(SubSeq(features, 1, page_size),
              IF skip + page_size # 0 THEN Given(StrOfInt(skip + page_size)) ELSE Missing)
    ELSE Page(features, Missing)

\* lines 122-126, given int(page_token)
Offset(features, skip, page_size) ==
    IF ~skip.ok THEN Failure("ValueError")
    ELSE IF skip.v >= Len(features) THEN Failure("ValueError")
    ELSE PageOf(SliceFrom(features, skip.v), skip.v, page_size)

\* lines 122-145
Paginate(features, query) ==
    IF query.page_token.has /\ Len(query.page_token.s) > 0
    THEN Offset(features, ParseInt(query.page_token.s), query.page_size)
    ELSE PageOf(features, 0, query.page_size)

Selected(filtered, query) ==
    IF ~filtered.ok THEN Failure(filtered.err) ELSE Paginate(filtered.v, query)

\* select_features
SelectFeatures(all_features, query) ==
    Selected(FilterLoop(all_features, query, 1, <<>>), query)

(***************************************************************************)
(* The upstream datasets of the model.                                     *)
(***************************************************************************)
Ring == <<<<10000, 20000>>, <<10001, 20000>>, <<10001, 20010>>, <<10000, 20010>>,
          <<10000, 20000>>>>

Airport(gid, ident) ==
    [GLOBAL_ID |-> gid, IDENT |-> ident, NAME |-> gid, geometry |-> <<10000, 20000>>]

Runway(gid, ap, designator, width, length) ==
    [AIRPORT_ID |-> ap, GLOBAL_ID |-> gid, DESIGNATOR |-> designator, WIDTH |-> width,
     LENGTH |-> length, coords |-> Ring, seg_length |-> <<width, length, width, length>>,
     heading12 |-> 900]

AirportIds == {"A1", "A2"}

AirportData(id) ==
    IF id = "A1" THEN <<Airport(<<"g", "1">>, <<"S", "F", "O">>)>>
    ELSE <<Airport(<<"g", "1">>, <<"S", "F", "O">>), Airport(<<"g", "2">>, <<>>)>>

RunwayIds == {"R1", "R2", "R3"}

\* R3 holds a record of no recognized class (line 378)
RunwayData(id) ==
    IF id = "R1" THEN <<Runway(<<"r", "1">>, <<"g", "1">>, <<"0", "9", "/", "2", "7">>, 150, 3000)>>
    ELSE IF id = "R2"
    THEN <<Runway(<<"r", "1">>, <<"g", "1">>, <<"0", "9", "/", "2", "7">>, 150, 3000),
           Runway(<<"r", "2">>, <<"g", "1">>, <<"H", "1">>, 50, 50)>>
    ELSE <<Runway(<<"r", "1">>, <<"g", "1">>, <<"0", "9", "/", "2", "7">>, 150, 3000),
           Runway(<<"r", "3">>, <<"g", "1">>, <<"1", "8">>, 40, 500)>>

(***************************************************************************)
(* The cache manager: get_features (lines 150-383) under gevent.           *)
(*                                                                         *)
(* __init__.py patches the process with gevent before anything else, so    *)
(* every request is a greenlet of the one OS thread, and a request runs    *)
(* without interruption until it waits on the network: requests.get is the *)
(* only yield point of get_features (files are read and written without    *)
(* yielding).  An action is one such uninterrupted run.                    *)
(*                                                                         *)
(* raw_data_lock is a multiprocessing.RLock: a recursive lock owned by a   *)
(* thread of a process, which its owner acquires again without waiting.    *)
(* Times are hours; a file's mtime and the clock are read on one scale.    *)
(***************************************************************************)
MAX_AGE == 6000

\* the clock advances in steps of TickHours up to MaxClock
TickHours == 3000
MaxClock == 9000

Requests == {"q1", "q2"}

Files == {"runways", "airports", "features"}

VARIABLES
    now,    \* the clock
    cache,  \* the files of CACHE_PATH: [exists, data, mtime] each
    lock,   \* raw_data_lock: [owner, count]
    pc,     \* where each request is
    mem,    \* the local variable runways of each request
    out,    \* what get_features returned or raised to each request
    hist,   \* per call: the payloads at its start, the files it changed,
            \* whether it ran the derivation, which fetch failed
    qAll,     \* a query: the features to select from
    qParams,  \* the request parameters
    qResult,  \* what from_dict and select_features gave
    qPhase,   \* "off", "ready" or "done"
    dDigits,    \* a designator: its digits
    dSuffix,    \* its suffix
    dRecip,     \* what _reciprocal_runway gave for it
    dHeadings,  \* what _heading_of gave for it and for its reciprocal
    dPhase,     \* "off", "ready" or "done"
    rBatch,     \* a derivation: the runway records
    rPos,       \* the record the loop is at
    rFeatures,  \* the features so far
    rLog,       \* the outcome of each record processed
    rWritten,   \* the derived features file
    rPhase,     \* "off", "loop", "written" or "aborted"
    wAll,       \* a walk through the pages: the features to select from
    wParams,    \* the request parameters, but for the page token
    wQuery,     \* the query that from_dict made of them
    wToken,     \* the page token of the next call
    wPages,     \* the features of the pages so far
    wCalls,     \* the calls made
    wPhase      \* "off", "start", "walking", "done" or "failed"

cacheVars == <<now, cache, lock, pc, mem, out, hist>>
queryVars == <<qAll, qParams, qResult, qPhase>>
parserVars == <<dDigits, dSuffix, dRecip, dHeadings, dPhase>>
deriveVars == <<rBatch, rPos, rFeatures, rLog, rWritten, rPhase>>
walkVars == <<wAll, wParams, wQuery, wToken, wPages, wCalls, wPhase>>
vars == <<cacheVars, queryVars, parserVars, deriveVars, walkVars>>

Absent == [exists |-> FALSE, data |-> None, mtime |-> 0]
Present(data, t) == [exists |-> TRUE, data |-> data, mtime |-> t]
NoFeatures == [exists |-> FALSE, data |-> <<>>, mtime |-> 0]

\* lines 1-3 of __init__.py: the OS thread a request runs on
Thread(p) == "MainThread"

\* SemLock.acquire of a recursive lock: free, or held by the calling thread
CanAcquire(l, t) == l.count = 0 \/ l.owner = t
Acquire(l, t) == [owner |-> t, count |-> l.count + 1]
Release(l) == IF l.count = 1 THEN [owner |-> None, count |-> 0]
              ELSE [l EXCEPT !.count = l.count - 1]

\* Stale with the age compared by >=
StaleAtMaxAge(f, t) == ~f.exists \/ (t - f.mtime) >= MAX_AGE

\* lines 157 and 171
Stale(f, t) == ~f.exists \/ (t - f.mtime) > MAX_AGE

\* the payloads of the cache, without the times
Payloads(c) == [f \in Files |-> [exists |-> c[f].exists, data |-> c[f].data]]

Changed(c1, c2) == {f \in Files : c1[f] # c2[f]}

\* an upstream response: a dataset, a non-success status, or a body that is
\* not JSON
Responses(ids) == [kind : {"ok"}, data : ids] \cup [kind : {"HTTPError", "ValueError"}, data : {None}]

NoOut == [kind |-> "none", features |-> <<>>]
Returned(fs) == [kind |-> "features", features |-> fs]
Raised(e) == [kind |-> e, features |-> <<>>]

\* what an uninterrupted run leaves: the cache, the request's place, its
\* runways, its result, whether it derived, which fetch failed
Run(c, where, rw, o, ran, failed) ==
    [cache |-> c, pc |-> where, rw |-> rw, out |-> o, ran |-> ran, failed |-> failed]

\* Store with the file written, and the derived features removed, before the
\* response is checked
StoreUnchecked(c, which, resp, t) ==
    [c EXCEPT ![which] = Present(resp.data, t), !.features = NoFeatures]

\* lines 160-165 and 174-179: the response is checked and decoded, then
\* written, and the derived features are removed
Store(c, which, resp, t) ==
    IF resp.kind # "ok" THEN c
    ELSE [c EXCEPT ![which] = Present(resp.data, t), !.features = NoFeatures]

\* lines 184-190 and 380-383
\* Regenerated with the features written whether or not the derivation ended
RegeneratedPartial(c, rw, d) ==
    Run([c EXCEPT !.features = [exists |-> TRUE, data |-> d.features, mtime |-> 0]],
        IF d.ok THEN "returned" ELSE "raised", rw,
        IF d.ok THEN Returned(d.features) ELSE Raised(d.err), TRUE, "none")

\* lines 190-383: the derived features are written when the derivation ends,
\* and its exception leaves the with block
Regenerated(c, rw, d) ==
    IF d.ok
    THEN Run([c EXCEPT !.features = [exists |-> TRUE, data |-> d.features, mtime |-> 0]],
             "returned", rw, Returned(d.features), TRUE, "none")
    ELSE Run(c, "raised", rw, Raised(d.err), TRUE, "none")

FeaturesStage(c, rw, ap) ==
    IF c.features.exists
    THEN Run(c, "returned", rw, Returned(c.features.data), FALSE, "none")
    ELSE Regenerated(c, rw, Derive(AirportData(ap), RunwayData(rw)))

\* lines 170-172 and 180-182
AirportsStage(c, rw, t) ==
    IF Stale(c.airports, t) THEN Run(c, "fetch_airports", rw, NoOut, FALSE, "none")
    ELSE FeaturesStage(c, rw, c.airports.data)

\* lines 150-158 and 166-168
RunwaysStage(c, t) ==
    IF Stale(c.runways, t) THEN Run(c, "fetch_runways", None, NoOut, FALSE, "none")
    ELSE AirportsStage(c, c.runways.data, t)

\* lines 159-165, then on
AfterRunways(c, resp, t) ==
    IF resp.kind # "ok"
    THEN Run(Store(c, "runways", resp, t), "raised", None, Raised(resp.kind), FALSE, "runways")
    ELSE AirportsStage(Store(c, "runways", resp, t), resp.data, t)

\* lines 173-179, then on
AfterAirports(c, rw, resp, t) ==
    IF resp.kind # "ok"
    THEN Run(Store(c, "airports", resp, t), "raised", rw, Raised(resp.kind), FALSE, "airports")
    ELSE FeaturesStage(Store(c, "airports", resp, t), rw, resp.data)

Finished(where) == where \in {"returned", "raised"}

\* the state after request p ran r; leaving the with block releases the lock
Apply(p, r, l, h) ==
    /\ cache' = r.cache
    /\ pc' = [pc EXCEPT ![p] = r.pc]
    /\ mem' = [mem EXCEPT ![p] = r.rw]
    /\ out' = [out EXCEPT ![p] = r.out]
    /\ lock' = IF Finished(r.pc) THEN Release(l) ELSE l
    /\ hist' = [h EXCEPT ![p].wrote = @ \cup Changed(cache, r.cache),
                         ![p].ran = r.ran,
                         ![p].failed = r.failed]
    /\ now' = now
    /\ UNCHANGED <<queryVars, parserVars, deriveVars, walkVars>>

NoHist == [snap |-> Payloads([f \in Files |-> Absent]), wrote |-> {}, ran |-> FALSE,
           failed |-> "none", staleRunways |-> FALSE, staleAirports |-> FALSE]

\* a request calls get_features and runs to its first fetch, or to the end
Call(p) ==
    /\ pc[p] = "idle"
    /\ CanAcquire(lock, Thread(p))
    /\ Apply(p, RunwaysStage(cache, now), Acquire(lock, Thread(p)),
             [hist EXCEPT ![p] =
                 [NoHist EXCEPT !.snap = Payloads(cache),
                                !.staleRunways = Stale(cache.runways, now),
                                !.staleAirports = Stale(cache.airports, now)]])

\* the runways request of p is answered
RunwaysResponse(p) ==
    /\ pc[p] = "fetch_runways"
    /\ \E resp \in Responses(RunwayIds) : Apply(p, AfterRunways(cache, resp, now), lock, hist)

\* the airports request of p is answered
AirportsResponse(p) ==
    /\ pc[p] = "fetch_airports"
    /\ \E resp \in Responses(AirportIds) :
           Apply(p, AfterAirports(cache, mem[p], resp, now), lock, hist)

\* the handler of __init__.py answers the request
Respond(p) ==
    /\ Finished(pc[p])
    /\ pc' = [pc EXCEPT ![p] = "idle"]
    /\ mem' = [mem EXCEPT ![p] = None]
    /\ out' = [out EXCEPT ![p] = NoOut]
    /\ hist' = [hist EXCEPT ![p] = NoHist]
    /\ UNCHANGED <<now, cache, lock>>
    /\ UNCHANGED <<queryVars, parserVars, deriveVars, walkVars>>

Tick ==
    /\ now + TickHours <= MaxClock
    /\ now' = now + TickHours
    /\ UNCHANGED <<cache, lock, pc, mem, out, hist>>
    /\ UNCHANGED <<queryVars, parserVars, deriveVars, walkVars>>

NoParams ==
    [page_token |-> Missing, page_size |-> Missing, exclude_runways |-> Missing,
     exclude_helipads |-> Missing, exclude_aerodromes |-> Missing,
     bounding_box |-> Missing, aerodrome_identifiers |-> Missing, countries |-> Missing]

NoResult == [kind |-> "none", features |-> <<>>, next_page_token |-> Missing]

QueryOff ==
    /\ qAll = <<>>
    /\ qParams = NoParams
    /\ qResult = NoResult
    /\ qPhase = "off"

NoHeadings == [of |-> Err("none"), ofReciprocal |-> Err("none")]

ParserOff ==
    /\ dDigits = <<>>
    /\ dSuffix = <<>>
    /\ dRecip = Err("none")
    /\ dHeadings = NoHeadings
    /\ dPhase = "off"

DeriveOff ==
    /\ rBatch = <<>>
    /\ rPos = 1
    /\ rFeatures = <<>>
    /\ rLog = <<>>
    /\ rWritten = NoFeatures
    /\ rPhase = "off"

WalkOff ==
    /\ wAll = <<>>
    /\ wParams = NoParams
    /\ wQuery = FromDict(NoParams).v
    /\ wToken = Missing
    /\ wPages = <<>>
    /\ wCalls = 0
    /\ wPhase = "off"

CacheInit ==
    /\ now = 0
    /\ cache = [runways |-> Absent, airports |-> Absent, features |-> NoFeatures]
    /\ lock = [owner |-> None, count |-> 0]
    /\ pc = [p \in Requests |-> "idle"]
    /\ mem = [p \in Requests |-> None]
    /\ out = [p \in Requests |-> NoOut]
    /\ hist = [p \in Requests |-> NoHist]

Init == CacheInit /\ QueryOff /\ ParserOff /\ DeriveOff /\ WalkOff

Next ==
    \/ \E p \in Requests : Call(p)
    \/ \E p \in Requests : RunwaysResponse(p)
    \/ \E p \in Requests : AirportsResponse(p)
    \/ \E p \in Requests : Respond(p)
    \/ Tick

Spec == Init /\ [][Next]_vars

(***************************************************************************)
(* The cache manager's claims.                                             *)
(***************************************************************************)
FetchFailed(p) == pc[p] = "raised" /\ hist[p].failed # "none"

\* C1 as stated: when a fetch of a call failed, the three cache payloads are
\* what they were when the call started.
C1_FailedFetchRestoresAll ==
    \A p \in Requests : FetchFailed(p) => Payloads(cache) = hist[p].snap

\* C1, amended: when a fetch of a call failed, the call raised the fetch's
\* failure and has not changed the raw airports; it has changed nothing at
\* all when it is the runways fetch that failed or when runways was not stale
\* at its start; otherwise (runways stale and fetched, then the airports fetch
\* failed) what it changed is the raw runways, and the derived features with
\* them.
C1_FailedFetchWrites ==
    \A p \in Requests : FetchFailed(p) =>
        /\ out[p].kind \in {"HTTPError", "ValueError"}
        /\ "airports" \notin hist[p].wrote
        /\ (hist[p].failed = "runways" \/ ~hist[p].staleRunways) => hist[p].wrote = {}
        /\ hist[p].wrote # {} => "runways" \in hist[p].wrote

\* a call refetched stale runways, which removed the derived features, and
\* its airports fetch failed
C1_Witness ==
    \E p \in Requests :
        /\ FetchFailed(p)
        /\ hist[p].failed = "airports"
        /\ hist[p].wrote = {"runways", "features"}

\* C2 as stated: whenever no call holds the lock and the derived features
\* exist, they are the derivation of the raw airports and raw runways that
\* the cache holds.
C2_DerivedMatchesRaw ==
    (lock.count = 0 /\ cache.features.exists) =>
        /\ cache.airports.exists
        /\ cache.runways.exists
        /\ Derive(AirportData(cache.airports.data), RunwayData(cache.runways.data)).ok
        /\ cache.features.data =
               Derive(AirportData(cache.airports.data), RunwayData(cache.runways.data)).features

\* the requests inside the with block of get_features
Inside == {p \in Requests : pc[p] \in {"fetch_runways", "fetch_airports"}}

\* C3 as stated: at most one request is inside the section of get_features
\* that the lock guards.
C3_MutualExclusion == Cardinality(Inside) <= 1

\* C4: a call that starts when both raw payloads exist and are not older
\* than the maximum age and the derived features exist performs no fetch, does
\* not derive, leaves the cache as it is and returns the persisted features.
C4_FreshCacheIsReturned ==
    [][\A p \in Requests :
          ( /\ pc[p] = "idle" /\ pc'[p] # "idle"
            /\ cache.runways.exists /\ now - cache.runways.mtime <= MAX_AGE
            /\ cache.airports.exists /\ now - cache.airports.mtime <= MAX_AGE
            /\ cache.features.exists )
          => ( /\ pc'[p] = "returned"
               /\ cache' = cache
               /\ ~hist'[p].ran
               /\ out'[p].kind = "features"
               /\ out'[p].features = cache.features.data )]_vars

\* a call returned the persisted features of raw payloads of exactly the
\* maximum age
C4_Witness ==
    \E p \in Requests :
        /\ pc[p] = "returned" /\ ~hist[p].ran /\ hist[p].wrote = {}
        /\ ~hist[p].staleRunways /\ ~hist[p].staleAirports
        /\ hist[p].snap.features.exists
        /\ now - cache.runways.mtime = MAX_AGE

\* C5: a derivation that aborts leaves no derived features behind, and a
\* call that then starts on the persisted raw payloads (not stale, no derived
\* features) runs the derivation on them again: it persists and returns their
\* features, or aborts again and leaves none.
C5_AbortedDerivationIsRetried ==
    [][\A p \in Requests :
          /\ (pc[p] # "raised" /\ pc'[p] = "raised" /\ hist'[p].ran)
                => ~cache'.features.exists
          /\ ( /\ pc[p] = "idle" /\ pc'[p] # "idle"
               /\ ~Stale(cache.runways, now) /\ ~Stale(cache.airports, now)
               /\ ~cache.features.exists )
                => /\ hist'[p].ran
                   /\ IF Derive(AirportData(cache.airports.data),
                                 RunwayData(cache.runways.data)).ok
                      THEN /\ pc'[p] = "returned"
                           /\ cache'.features.exists
                           /\ cache'.features.data =
                                  Derive(AirportData(cache.airports.data),
                                         RunwayData(cache.runways.data)).features
                           /\ out'[p].features = cache'.features.data
                      ELSE /\ pc'[p] = "raised"
                           /\ cache' = cache]_vars

\* a call that found the raw payloads persisted and no derived features (an
\* earlier derivation aborted) ran the derivation, which aborted again
C5_Witness ==
    \E p \in Requests :
        /\ pc[p] = "raised" /\ hist[p].ran
        /\ ~hist[p].staleRunways /\ ~hist[p].staleAirports
        /\ hist[p].snap.runways.exists /\ ~hist[p].snap.features.exists
        /\ ~cache.features.exists

(***************************************************************************)
(* Queries: from_dict and select_features applied to request parameters    *)
(* and a feature list drawn from bounded sets.                             *)
(***************************************************************************)
\* the feature lists hold up to MaxFeatures features
MaxFeatures == 25

QFeature(type, ap_id, geotype, coordinates) ==
    [aerodrome_element_type |-> type, aerodrome_identifier |-> ap_id, id |-> 0,
     geometry |-> [type |-> geotype, coordinates |-> coordinates]]

KSFO == <<"K", "S", "F", "O">>
G2 == <<"g", "2">>

FeaturePool ==
    << QFeature("Aerodrome", KSFO, "Point", <<175, 15>>),
       QFeature("Runway", KSFO, "LineString", << <<175, 15>>, <<180, 16>> >>),
       QFeature("Helipad", KSFO, "Point", <<-175, 15>>),
       QFeature("Aerodrome", G2, "Point", <<0, 15>>),
       QFeature("Runway", G2, "LineString", << <<0, 15>>, <<5, 25>> >>),
       QFeature("Helipad", G2, "Point", <<0, 50>>),
       QFeature("Helipad", G2, "Point", <<180, 12>>) >>

\* the first n features of the pool repeated, each with its own id
FeatureList(n) ==
    [k \in 1..n |-> [FeaturePool[((k - 1) % Len(FeaturePool)) + 1] EXCEPT !.id = k]]

AntimeridianBox == <<"1", "0", ",", "1", "7", "0", ",", "2", "0", ",", "-", "1", "7", "0">>

BoundingBoxes ==
    { Missing,
      Given(AntimeridianBox),
      Given(<<"1", "0", ",", "1", "7", "0", ",", "2", "0", ",", "1", "9", "0">>),
      Given(<<"1", "0", ",", "0", ",", "2", "0", ",", "1", "0">>),
      Given(<<"1", "0", ",", "2", "0">>) }

PageSizes == {Missing, Given(<<"0">>), Given(<<"2">>), Given(<<"1", "0">>), Given(<<"-", "1">>)}

PageTokens ==
    {Missing, Given(<<>>), Given(<<"0">>), Given(<<"1", "0">>), Given(<<"2", "0">>),
     Given(<<"3", "0">>)}

\* the exclusion flags: none, or one of them
Exclusions ==
    { [r |-> Missing, h |-> Missing, a |-> Missing],
      [r |-> Given(<<"t", "r", "u", "e">>), h |-> Missing, a |-> Missing],
      [r |-> Missing, h |-> Given(<<"T", "r", "u", "e">>), a |-> Missing],
      [r |-> Given(<<"f", "a", "l", "s", "e">>), h |-> Missing,
       a |-> Given(<<"T", "R", "U", "E">>)] }

IdentifierLists == {Missing, Given(<<" ", "K", "S", "F", "O", ",", "x">>)}

CountryLists == {Missing, Given(<<"U", "S", "A">>), Given(<<"C", "A", "N">>)}

QueryInit ==
    /\ qAll \in {FeatureList(n) : n \in 0..MaxFeatures}
    /\ qParams \in
         { [page_token |-> t, page_size |-> z, exclude_runways |-> e.r,
            exclude_helipads |-> e.h, exclude_aerodromes |-> e.a,
            bounding_box |-> b, aerodrome_identifiers |-> i, countries |-> c] :
           t \in PageTokens, z \in PageSizes, e \in Exclusions, b \in BoundingBoxes,
           i \in IdentifierLists, c \in CountryLists }
    /\ qResult = NoResult
    /\ qPhase = "ready"

\* lines 19-21 and 30-33 of __init__.py, given the parsed parameters
Answer(all_features, query) ==
    IF ~query.ok THEN Failure(query.err) ELSE SelectFeatures(all_features, query.v)

\* the handler parses the parameters and selects the features
Query ==
    /\ qPhase = "ready"
    /\ qResult' = Answer(qAll, FromDict(qParams))
    /\ qPhase' = "done"
    /\ UNCHANGED <<qAll, qParams>>
    /\ UNCHANGED <<cacheVars, parserVars, deriveVars, walkVars>>

InitQuery == CacheInit /\ QueryInit /\ ParserOff /\ DeriveOff /\ WalkOff

SpecQuery == InitQuery /\ [][Query]_vars

(***************************************************************************)
(* The query engine's claims.                                              *)
(***************************************************************************)
\* the parameters parsed, and the features they select before pagination
QParsed == FromDict(qParams).v
QFiltered == FilterLoop(qAll, QParsed, 1, <<>>).v

\* a page token is given (the empty string counts as none), and its offset
TokenGiven == qParams.page_token.has /\ qParams.page_token.s # <<>>
TokenOffset == IF TokenGiven THEN IntOf(qParams.page_token.s) ELSE 0

\* C6: with F the filtered sequence, N its length, p the page size and t the
\* offset of the page token (0 without a token), the query fails with
\* ValueError when a token is given and t >= N; otherwise it returns
\* F[t : t+p] and the next page token str(t+p) when p > 0 and N - t > p, and
\* F[t:] and no next page token when p = 0 or N - t <= p.  With N = 25 and
\* p = 10, no token, "10" and "20" give F[0:10], F[10:20] and F[20:25], and
\* the token "30" fails.
C6_Pagination ==
    (qPhase = "done" /\ FromDict(qParams).ok) =>
        /\ IF TokenGiven /\ TokenOffset >= Len(QFiltered)
           THEN qResult.kind = "ValueError"
           ELSE IF QParsed.page_size > 0 /\ Len(QFiltered) - TokenOffset > QParsed.page_size
           THEN /\ qResult.kind = "page"
                /\ qResult.features =
                       SubSeq(QFiltered, TokenOffset + 1, TokenOffset + QParsed.page_size)
                /\ qResult.next_page_token.has
                /\ IsDigits(qResult.next_page_token.s)
                /\ qResult.next_page_token.s[1] # "0"
                /\ IntOf(qResult.next_page_token.s) = TokenOffset + QParsed.page_size
           ELSE /\ qResult.kind = "page"
                /\ qResult.features = SubSeq(QFiltered, TokenOffset + 1, Len(QFiltered))
                /\ ~qResult.next_page_token.has
        /\ (Len(QFiltered) = 25 /\ QParsed.page_size = 10) =>
              /\ qParams.page_token = Missing
                   => qResult = Page(SubSeq(QFiltered, 1, 10), Given(<<"1", "0">>))
              /\ qParams.page_token = Given(<<"1", "0">>)
                   => qResult = Page(SubSeq(QFiltered, 11, 20), Given(<<"2", "0">>))
              /\ qParams.page_token = Given(<<"2", "0">>)
                   => qResult = Page(SubSeq(QFiltered, 21, 25), Missing)
              /\ qParams.page_token = Given(<<"3", "0">>)
                   => qResult.kind = "ValueError"

\* the last page of 25 features by 10: the token "20" gives the 5 features
\* left and no next page token
C6_Witness ==
    /\ qPhase = "done"
    /\ Len(qAll) = 25
    /\ qParams.page_token = Given(<<"2", "0">>)
    /\ qParams.page_size = Given(<<"1", "0">>)
    /\ qResult.kind = "page"
    /\ Len(qResult.features) = 5
    /\ qResult.features[1] = qAll[21]
    /\ ~qResult.next_page_token.has

\* a query of one bounding box and nothing else: every feature on one page
OnlyBox(box) ==
    /\ qParams = [NoParams EXCEPT !.bounding_box = Given(box)]

IsPoint(f) == f.geometry.type = "Point"

InResult(f) == \E k \in 1..Len(qResult.features) : qResult.features[k] = f

\* C7 as stated: the bounding box "10,170,20,-170" keeps every point whose
\* latitude is in [10, 20] and whose longitude, taken modulo 360, is in
\* [170, 190], and rejects the points at longitude 0.
C7_AntimeridianBox ==
    (qPhase = "done" /\ OnlyBox(AntimeridianBox)) =>
        /\ qResult.kind = "page"
        /\ \A k \in 1..Len(qAll) :
              IsPoint(qAll[k]) =>
                 /\ ( /\ 10 <= qAll[k].geometry.coordinates[2]
                      /\ qAll[k].geometry.coordinates[2] <= 20
                      /\ 170 <= qAll[k].geometry.coordinates[1] % 360
                      /\ qAll[k].geometry.coordinates[1] % 360 <= 190 )
                    => InResult(qAll[k])
                 /\ qAll[k].geometry.coordinates[1] = 0 => ~InResult(qAll[k])

\* the coordinates of a feature: the point, or the points of the line
PointsOf(f) ==
    IF IsPoint(f) THEN {f.geometry.coordinates}
    ELSE {f.geometry.coordinates[k] : k \in 1..Len(f.geometry.coordinates)}

\* the four filters of C8, for the parsed query q
Passes(f, q) ==
    /\ ~(q.exclude_runways /\ f.aerodrome_element_type = "Runway")
    /\ ~(q.exclude_helipads /\ f.aerodrome_element_type = "Helipad")
    /\ ~(q.exclude_aerodromes /\ f.aerodrome_element_type = "Aerodrome")
    /\ \A c \in PointsOf(f) :
          /\ q.latA <= c[2] /\ c[2] <= q.latB
          /\ q.lngA <= (c[1] % 360) - (IF q.lng_wrap_180 THEN 180 ELSE 0)
          /\ (c[1] % 360) - (IF q.lng_wrap_180 THEN 180 ELSE 0) <= q.lngB
    /\ (q.aerodrome_identifiers = {} \/ f.aerodrome_identifier \in q.aerodrome_identifiers)
    /\ (q.countries = {} \/ <<"U", "S", "A">> \in q.countries)

PassesParsed(f) == Passes(f, QParsed)
NotHelipad(f) == f.aerodrome_element_type # "Helipad"

\* C8: with page size 0 and no page token, the query returns, in input
\* order, exactly the features that pass the four filters; and with
\* exclude_helipads set it returns the features of the same query without
\* the flag, less the helipads.
C8_Filters ==
    (qPhase = "done" /\ FromDict(qParams).ok /\ QParsed.page_size = 0 /\ ~TokenGiven) =>
        /\ qResult.kind = "page"
        /\ ~qResult.next_page_token.has
        /\ qResult.features = SelectSeq(qAll, PassesParsed)
        /\ SelectFeatures(qAll, [QParsed EXCEPT !.exclude_helipads = TRUE]).features
             = SelectSeq(SelectFeatures(qAll, [QParsed EXCEPT !.exclude_helipads = FALSE]).features,
                         NotHelipad)

\* the box "10,0,20,10" with exclude_helipads on the seven features of the
\* pool: the aerodrome at longitude 0 is returned, and the runway from it
\* whose other end lies at latitude 25 is not
C8_Witness ==
    /\ qPhase = "done"
    /\ Len(qAll) = 7
    /\ qParams.bounding_box = Given(<<"1", "0", ",", "0", ",", "2", "0", ",", "1", "0">>)
    /\ Flag(qParams.exclude_helipads)
    /\ qParams.aerodrome_identifiers = Missing
    /\ qParams.countries = Missing
    /\ QParsed.page_size = 0 /\ ~TokenGiven
    /\ qResult.kind = "page"
    /\ qResult.features = <<qAll[4]>>

(***************************************************************************)
(* The designator parser on numeric designators.                           *)
(***************************************************************************)
\* the designators run over 00..MaxTens and 000..MaxDegrees
MaxTens == 36
MaxDegrees == 360

NumericNames ==
    {ZeroPad(StrOf(n), 2) : n \in 0..MaxTens} \cup {ZeroPad(StrOf(n), 3) : n \in 0..MaxDegrees}

\* no suffix, or a key of RECIPROCAL_SUFFIXES
Suffixes == {<<>>} \cup DOMAIN RECIPROCAL_SUFFIXES

ParserInit ==
    /\ dDigits \in NumericNames
    /\ dSuffix \in Suffixes
    /\ dRecip = Err("none")
    /\ dHeadings = NoHeadings
    /\ dPhase = "ready"

\* the headings of a designator and of the reciprocal r found for it
HeadingsOf(name, r) ==
    [of |-> HeadingOf(name), ofReciprocal |-> IF r.ok THEN HeadingOf(r.v) ELSE r]

Reciprocate(name, r) ==
    /\ dRecip' = r
    /\ dHeadings' = HeadingsOf(name, r)

\* _reciprocal_runway and _heading_of are applied to the designator
Reciprocal ==
    /\ dPhase = "ready"
    /\ Reciprocate(dDigits \o dSuffix, ReciprocalRunway(dDigits \o dSuffix))
    /\ dPhase' = "done"
    /\ UNCHANGED <<dDigits, dSuffix>>
    /\ UNCHANGED <<cacheVars, queryVars, deriveVars, walkVars>>

InitDesignator == CacheInit /\ QueryOff /\ ParserInit /\ DeriveOff /\ WalkOff

SpecDesignator == InitDesignator /\ [][Reciprocal]_vars

\* the reciprocal found keeps the digit width, carries the mapped suffix and
\* lies 180 degrees (1800 tenths) from the designator
IsReciprocal ==
    /\ dRecip.ok
    /\ Len(dRecip.v) = Len(dDigits) + Len(dSuffix)
    /\ IsDigits(SubSeq(dRecip.v, 1, Len(dDigits)))
    /\ SubSeq(dRecip.v, Len(dDigits) + 1, Len(dRecip.v))
         = (IF dSuffix = <<>> THEN <<>> ELSE RECIPROCAL_SUFFIXES[dSuffix])
    /\ dHeadings.of.ok
    /\ dHeadings.ofReciprocal.ok
    /\ dHeadings.ofReciprocal.v = (dHeadings.of.v + 1800) % 3600

\* C10 as stated: for every designator of 2 digits (00..36) or 3 digits
\* (000..360), optionally followed by a suffix that has a reciprocal (any key
\* of RECIPROCAL_SUFFIXES), _reciprocal_runway gives a designator of as many
\* digits, with the mapped suffix, whose heading is the designator's plus
\* 180 modulo 360.
C10_ReciprocalOfAnySuffix == dPhase = "done" => IsReciprocal

\* C10, amended: for every designator of 2 digits (00..36) or 3 digits
\* (000..360), optionally followed by a suffix of one letter that has a
\* reciprocal (L, R, W, E, N, S), _reciprocal_runway gives a designator of
\* as many digits, with the mapped suffix, whose heading is the
\* designator's plus 180 modulo 360; "09L" gives "27R" and "04" gives "22".
C10_ReciprocalOfLetterSuffix ==
    (dPhase = "done" /\ Len(dSuffix) <= 1) =>
        /\ IsReciprocal
        /\ (dDigits = <<"0", "9">> /\ dSuffix = <<"L">>) => dRecip.v = <<"2", "7", "R">>
        /\ (dDigits = <<"0", "4">> /\ dSuffix = <<>>) => dRecip.v = <<"2", "2">>

\* "09L" was given its reciprocal "27R", of heading 270
C10_Witness ==
    /\ dPhase = "done"
    /\ dDigits = <<"0", "9">>
    /\ dSuffix = <<"L">>
    /\ dRecip = Ok(<<"2", "7", "R">>)
    /\ dHeadings.of = Ok(900)
    /\ dHeadings.ofReciprocal = Ok(2700)

(***************************************************************************)
(* The derivation loop on a batch of runway records (lines 190-381).       *)
(***************************************************************************)
\* the batches hold up to MaxBatch records
MaxBatch == 3

\* the records of the batches, all of the airport g1: a surveyed runway, a
\* helipad, a runway decommissioned under two names and one under a single
\* name, a balloon port, and a record of no recognized class
RecordPool ==
    { Runway(<<"r", "1">>, <<"g", "1">>, <<"0", "9", "/", "2", "7">>, 150, 3000),
      Runway(<<"r", "2">>, <<"g", "1">>, <<"H", "1">>, 50, 50),
      Runway(<<"r", "3">>, <<"g", "1">>, <<"1", "8", "X", "/", "3", "6", "X">>, 100, 2000),
      Runway(<<"r", "4">>, <<"g", "1">>, <<"1", "8", "X">>, 100, 3000),
      Runway(<<"r", "5">>, <<"g", "1">>, <<"B", "1">>, 100, 100),
      Runway(<<"r", "6">>, <<"g", "1">>, <<"1", "8">>, 40, 500) }

Batches == UNION {[1..n -> RecordPool] : n \in 1..MaxBatch}

\* a ring of placeholder coordinates near the origin (bad_coords)
BadRing == <<<<0, 0>>, <<0, 0>>, <<0, 0>>, <<0, 0>>, <<0, 0>>>>

\* designators of every class: two names, a hyphen, one name, suffixes,
\* decommissioned names, compass names, helipads, balloon ports, names that
\* do not parse, three names, an empty second name, and the empty designator
Designators ==
    { <<"0", "9", "/", "2", "7">>, <<"0", "9", "-", "2", "7">>, <<"0", "9">>,
      <<"0", "9", "L">>, <<"1", "8", "X">>, <<"1", "8", "X", "/", "3", "6", "X">>,
      <<"0", "9", "/", "2", "7", "X">>, <<"W">>, <<"N", "/", "S">>, <<"N", "E">>,
      <<"H", "1">>, <<"H", "-", "1">>, <<"B", "1">>, <<"B", "/", "1">>,
      <<"1", "8">>, <<"Q", "Q", "/", "2", "7">>, <<"0", "9", "/", "2", "7", "/", "1", "8">>,
      <<"0", "9", "/">>, <<>> }

\* the sides measured on a ring (feet): near the nominal 100 x 3000, the same
\* from the next vertex on, far from the nominal values, and with ends of no
\* width
Measurements ==
    { <<100, 3000, 100, 3000>>, <<3000, 100, 3000, 100>>, <<900, 200, 900, 200>>,
      <<0, 3000, 0, 3000>> }

\* raw runway records of the airport g1 over the designators, the nominal
\* lengths and widths, the rings, and what is measured on them
Records ==
    { [Runway(<<"r", "0">>, <<"g", "1">>, d, w, l) EXCEPT
           !.coords = c, !.seg_length = m, !.heading12 = h] :
      d \in Designators, l \in {0, 500, 3000}, w \in {0, 100}, c \in {Ring, BadRing},
      m \in Measurements, h \in {900, 2000} }

\* a record of Records, and a surveyed runway after it
Pairs ==
    {<<r, Runway(<<"r", "1">>, <<"g", "1">>, <<"0", "9", "/", "2", "7">>, 150, 3000)>> :
         r \in Records}

\* lines 190-208: the features start as those of the airports
DeriveInit ==
    /\ rBatch \in Batches \cup Pairs
    /\ rPos = 1
    /\ rFeatures = [k \in 1..Len(AirportData("A1")) |-> AerodromeFeature(AirportData("A1")[k])]
    /\ rLog = <<>>
    /\ rWritten = NoFeatures
    /\ rPhase = "loop"

\* what the loop did with a record: its outcome, and the type of the feature
\* appended
Logged(r) ==
    [kind |-> r.kind, err |-> r.err,
     type |-> IF r.kind = "feature" THEN r.feature.aerodrome_element_type ELSE None]

\* the loop after the outcome r of the record at rPos
Looped(r) ==
    /\ rLog' = Append(rLog, Logged(r))
    /\ IF r.kind = "abort"
       THEN /\ rPhase' = "aborted"
            /\ UNCHANGED <<rPos, rFeatures>>
       ELSE /\ rPhase' = "loop"
            /\ rPos' = rPos + 1
            /\ rFeatures' = Collected(rFeatures, r)

\* one iteration of the loop of line 212
ProcessNext ==
    /\ rPhase = "loop"
    /\ rPos <= Len(rBatch)
    /\ Looped(JoinedRunway(rBatch[rPos],
                           AirportsById(AirportData("A1"), rBatch[rPos].AIRPORT_ID)))
    /\ UNCHANGED <<rBatch, rWritten>>
    /\ UNCHANGED <<cacheVars, queryVars, parserVars, walkVars>>

\* lines 380-381: the loop is over and the features are written
WriteFeatures ==
    /\ rPhase = "loop"
    /\ rPos > Len(rBatch)
    /\ rWritten' = [exists |-> TRUE, data |-> rFeatures, mtime |-> 0]
    /\ rPhase' = "written"
    /\ UNCHANGED <<rBatch, rPos, rFeatures, rLog>>
    /\ UNCHANGED <<cacheVars, queryVars, parserVars, walkVars>>

NextDerive ==
    \/ ProcessNext
    \/ WriteFeatures

InitDerive == CacheInit /\ QueryOff /\ ParserOff /\ DeriveInit /\ WalkOff

SpecDerive == InitDerive /\ [][NextDerive]_vars

\* a record classified as a runway whose designator names all end in "X"
DecommissionedRecord(r) ==
    /\ Len(r.DESIGNATOR) > 0
    /\ IsRunway(NormalizeName(r.DESIGNATOR), r.LENGTH)
    /\ \A k \in 1..Len(Split(NormalizeName(r.DESIGNATOR), "/")) :
          /\ Len(Split(NormalizeName(r.DESIGNATOR), "/")[k]) > 0
          /\ Last(Split(NormalizeName(r.DESIGNATOR), "/")[k]) = "X"

\* a record classified as a balloon port
BalloonRecord(r) ==
    /\ Len(r.DESIGNATOR) > 0
    /\ r.DESIGNATOR[1] = "B"
    /\ r.LENGTH # 0
    /\ ~IsRunway(NormalizeName(r.DESIGNATOR), r.LENGTH)

\* C9 as stated: a record classified as a runway whose designator names all
\* end in "X" (one name or two), and a record classified as a balloon port,
\* each produce no feature and do not abort the derivation: the loop goes on
\* to the next record, and once every record is processed the features are
\* written.
C9_DroppedRecordsAreSkipped ==
    /\ \A i \in 1..Len(rLog) :
          (DecommissionedRecord(rBatch[i]) \/ BalloonRecord(rBatch[i]))
              => rLog[i].kind = "skip"
    /\ (rPhase = "aborted"
            => ~(DecommissionedRecord(rBatch[rPos]) \/ BalloonRecord(rBatch[rPos])))

\* the same of the records that do skip: a balloon port, and a runway whose
\* designator gives two names that end in "X"
TwoNamesOrBalloonSkipped ==
    \A i \in 1..Len(rLog) :
        ( \/ BalloonRecord(rBatch[i])
          \/ (DecommissionedRecord(rBatch[i]) /\ Contains(NormalizeName(rBatch[i].DESIGNATOR), "/")) )
            => rLog[i].kind = "skip"

\* whether a name starts with one of the letters
StartsWith(name, letters) == Len(name) > 0 /\ name[1] \in letters

\* the class that C11 gives a record, from its designator after the hyphens
\* of a name that starts with neither H nor B are turned into "/"
ClaimedClass(r) ==
    IF \/ /\ ~StartsWith(r.DESIGNATOR, {"H", "B"})
          /\ (Contains(r.DESIGNATOR, "/") \/ Contains(r.DESIGNATOR, "-") \/ r.LENGTH > 800)
       \/ r.DESIGNATOR = <<"W">>
    THEN "runway"
    ELSE IF StartsWith(r.DESIGNATOR, {"H"}) \/ r.LENGTH = 0 THEN "helipad"
    ELSE IF StartsWith(r.DESIGNATOR, {"B"}) THEN "balloon"
    ELSE "none"

OneFeature(entry, type) == entry.kind = "feature" /\ entry.type = type

\* the features a record added are those between the airports' and the
\* features so far: one for each record logged as a feature
FeaturesAdded ==
    Len(rFeatures) = Len(AirportData("A1"))
                       + Cardinality({i \in 1..Len(rLog) : rLog[i].kind = "feature"})

\* C11 as stated: a record of the runway class yields one Runway feature or
\* a decommissioned skip, a record of the helipad class one Helipad feature,
\* a record of the balloon class no feature, and a record of no class aborts
\* the derivation; no record yields more than one feature.
C11_ClassGivesOutcome ==
    /\ FeaturesAdded
    /\ \A i \in 1..Len(rLog) :
          /\ ClaimedClass(rBatch[i]) = "runway"
                => \/ OneFeature(rLog[i], "Runway")
                   \/ (rLog[i].kind = "skip" /\ rLog[i].err = "decommissioned")
          /\ ClaimedClass(rBatch[i]) = "helipad" => OneFeature(rLog[i], "Helipad")
          /\ ClaimedClass(rBatch[i]) = "balloon" => rLog[i].kind = "skip"
          /\ ClaimedClass(rBatch[i]) = "none" => rLog[i].kind = "abort"

\* C11, amended: a record with an empty designator aborts the derivation.
\* Any other record falls in exactly one class: a record of the runway class
\* yields one Runway feature, or a skip (only when its names all end in "X"),
\* or aborts the derivation; a record of the helipad class yields one Helipad
\* feature; a record of the balloon class is skipped; a record of no class
\* aborts the derivation.  No record yields more than one feature.
C11_ClassGivesOutcomeOrAbort ==
    /\ FeaturesAdded
    /\ \A i \in 1..Len(rLog) :
          IF rBatch[i].DESIGNATOR = <<>>
          THEN rLog[i].kind = "abort" /\ rLog[i].err = "IndexError"
          ELSE /\ ClaimedClass(rBatch[i]) = "runway"
                     => \/ OneFeature(rLog[i], "Runway")
                        \/ /\ rLog[i].kind = "skip" /\ rLog[i].err = "decommissioned"
                           /\ DecommissionedRecord(rBatch[i])
                        \/ rLog[i].kind = "abort"
               /\ ClaimedClass(rBatch[i]) = "helipad" => OneFeature(rLog[i], "Helipad")
               /\ ClaimedClass(rBatch[i]) = "balloon"
                     => rLog[i].kind = "skip" /\ rLog[i].err = "balloon"
               /\ ClaimedClass(rBatch[i]) = "none"
                     => rLog[i].kind = "abort" /\ rLog[i].err = "NotImplementedError"

\* a record of length 0 whose name starts with "B" gave a Helipad feature,
\* and the runway after it a Runway feature
C11_Witness ==
    /\ Len(rLog) = 2
    /\ rBatch[1].DESIGNATOR = <<"B", "1">>
    /\ rBatch[1].LENGTH = 0
    /\ OneFeature(rLog[1], "Helipad")
    /\ OneFeature(rLog[2], "Runway")
    /\ Len(rFeatures) = Len(AirportData("A1")) + 2

\* the names of a record's designator
ClaimedNames(r) == Split(NormalizeName(r.DESIGNATOR), "/")

\* a designator that cannot be parsed: it is empty, one of its names has no
\* heading, or it is a single name that has no reciprocal
Unparsable(r) ==
    \/ r.DESIGNATOR = <<>>
    \/ \E k \in 1..Len(ClaimedNames(r)) : ~HeadingOf(ClaimedNames(r)[k]).ok
    \/ Len(ClaimedNames(r)) = 1 /\ ~ReciprocalRunway(ClaimedNames(r)[1]).ok

\* the fatal conditions that C12 lists
FatalCondition(r) ==
    \/ BadCoords(r.coords) /\ (r.LENGTH = 0 \/ r.WIDTH = 0)
    \/ Unparsable(r)
    \/ ClaimedClass(r) = "none"

\* C12 as stated: a record aborts the derivation only for a listed fatal
\* condition (bad_coords with nominal length 0 or width 0, a designator that
\* cannot be parsed, no classification); every other record, whatever is
\* measured on its ring and however many names it has, ends in a feature or
\* a skip, and the loop goes on to the records after it.
C12_OnlyFatalConditionsAbort ==
    /\ \A i \in 1..Len(rLog) :
          ~FatalCondition(rBatch[i]) => rLog[i].kind \in {"feature", "skip"}
    /\ (rPhase = "aborted" => FatalCondition(rBatch[rPos]))

\* the same with the two conditions that also abort: a side measured as 0 ft
\* on a surveyed ring, and more than two names on a surveyed ring
AbortsAreFatalOrUnhandled ==
    \A i \in 1..Len(rLog) :
        rLog[i].kind = "abort" =>
            \/ FatalCondition(rBatch[i])
            \/ /\ ~BadCoords(rBatch[i].coords)
               /\ ClaimedClass(rBatch[i]) = "runway"
               /\ \/ \E k \in 1..4 : rBatch[i].seg_length[k] = 0
                  \/ Len(ClaimedNames(rBatch[i])) > 2

(***************************************************************************)
(* A client walking through the pages of a query: it calls with no page    *)
(* token, then with the next page token of each page, as long as it is     *)
(* given one.                                                              *)
(***************************************************************************)
\* page sizes above 0
WalkPageSizes == {Given(<<"1">>), Given(<<"2">>), Given(<<"1", "0">>)}

\* the bounding boxes that from_dict accepts
WalkBoxes == {b \in BoundingBoxes : BoundingBox(b).ok}

WalkInit ==
    /\ wAll = <<>>
    /\ wParams = NoParams
    /\ wQuery = FromDict(NoParams).v
    /\ wToken = Missing
    /\ wPages = <<>>
    /\ wCalls = 0
    /\ wPhase = "start"

\* the features and the filters of the walk are fixed, with no page token,
\* and from_dict parses the filters
WalkStart ==
    /\ wPhase = "start"
    /\ wAll' \in {FeatureList(n) : n \in 0..MaxFeatures}
    /\ wParams' \in
         { [page_token |-> Missing, page_size |-> z, exclude_runways |-> e.r,
            exclude_helipads |-> e.h, exclude_aerodromes |-> e.a,
            bounding_box |-> b, aerodrome_identifiers |-> i, countries |-> c] :
           z \in WalkPageSizes, e \in Exclusions, b \in WalkBoxes,
           i \in IdentifierLists, c \in CountryLists }
    /\ wQuery' = FromDict(wParams').v
    /\ wPhase' = "walking"
    /\ UNCHANGED <<wToken, wPages, wCalls>>
    /\ UNCHANGED <<cacheVars, queryVars, parserVars, deriveVars>>

\* the walk after the answer r to a call
Walked(r) ==
    IF r.kind # "page"
    THEN /\ wPhase' = "failed"
         /\ UNCHANGED <<wToken, wPages>>
    ELSE /\ wPages' = wPages \o r.features
         /\ wToken' = r.next_page_token
         /\ wPhase' = IF r.next_page_token.has THEN "walking" ELSE "done"

\* the client calls select_features with the page token it holds
WalkStep ==
    /\ wPhase = "walking"
    /\ \E r \in {SelectFeatures(wAll, [wQuery EXCEPT !.page_token = wToken])} : Walked(r)
    /\ wCalls' = wCalls + 1
    /\ UNCHANGED <<wAll, wParams, wQuery>>
    /\ UNCHANGED <<cacheVars, queryVars, parserVars, deriveVars>>

InitWalk == CacheInit /\ QueryOff /\ ParserOff /\ DeriveOff /\ WalkInit

NextWalk ==
    \/ WalkStart
    \/ WalkStep

\* the client goes on calling as long as it holds a next page token
SpecWalk == InitWalk /\ [][NextWalk]_vars /\ WF_vars(NextWalk)

\* the filtered sequence of the walk
WFiltered == FilterLoop(wAll, wQuery, 1, <<>>).v

\* C13: in a walk from no page token through the next page tokens, with a
\* page size above 0, no call fails, the pages so far are the filtered
\* sequence up to the offset of the token held, the walk ends with a page
\* without a next page token, and the pages are then the filtered sequence,
\* each feature once and in order.
C13_WalkCoversFiltered ==
    /\ [](wPhase \in {"walking", "done"} =>
            /\ Len(wPages) <= Len(WFiltered)
            /\ wPages = SubSeq(WFiltered, 1, Len(wPages))
            /\ wToken.has => (IsDigits(wToken.s) /\ IntOf(wToken.s) = Len(wPages)
                                /\ Len(wPages) < Len(WFiltered))
            /\ wPhase = "done" => (wPages = WFiltered /\ ~wToken.has))
    /\ [](wPhase # "failed")
    /\ <>(wPhase = "done")

\* 25 features by pages of 10 without filters: the walk ended after 3 calls
\* with all of them
C13_Witness ==
    /\ wPhase = "done"
    /\ Len(wAll) = 25
    /\ wParams = [NoParams EXCEPT !.page_size = Given(<<"1", "0">>)]
    /\ wCalls = 3
    /\ wPages = wAll
=============================================================================
